---- MODULE Spec2Model ----
(***************************************************************************)
(* Geometry engine of the SVG panel assembly tool: transform parsing and   *)
(* composition, content bounds, cropping and the multi-panel layout        *)
(* (main.py), with the transform handling of the alignment pass            *)
(* (align_axes.py) and of the extraction variant (extract_panel_svg_og.py).*)
(*                                                                         *)
(* Numbers of the bounds engine are integers (the code's float arithmetic  *)
(* on integer-valued attributes uses only +, -, *, min and max).  Numbers  *)
(* of the layout engine are exact rationals, because the publisher scale   *)
(* is a quotient.                                                          *)
(***************************************************************************)
EXTENDS Integers, Sequences, FiniteSets, TLC

VARIABLES
    doc,          \* the parsed document: sequence of element nodes, doc[1] is the root
    res,          \* record of the last geometry call made on doc and what it returned
    attr,         \* a transform attribute string handed to parse_transform
    parsed,       \* what parse_transform did with attr
    panels,       \* the panel files named on the command line, in input order
    composite     \* what create_composite_svg produced from panels

vars == <<doc, res, attr, parsed, panels, composite>>

\* ------------------------------------------------------------------ bounds
MaxNodes == 3     \* elements per document, the root included
MaxCalls == 2     \* transform functions in one attribute string
MaxPanels == 3    \* panel files on one command line
MaxAlignNodes == 4    \* elements of a document handed to the alignment pass

\* ------------------------------------------------------------------ helpers
Min2(a, b) == IF a <= b THEN a ELSE b
Max2(a, b) == IF a >= b THEN a ELSE b
Abs(a) == IF a < 0 THEN -a ELSE a

\* element.get(name, default) on an attribute mapping
Get(attrs, name, default) == IF name \in DOMAIN attrs THEN attrs[name] ELSE default

\* ------------------------------------------------------------------ transform attribute strings
\* A transform attribute is a sequence of function calls name(arg, arg, ...),
\* comma separated arguments.  An argument is a number or a non-numeric word.
Num(v) == [num |-> TRUE, v |-> v]
Word == [num |-> FALSE, v |-> 0]
Call(fn, args) == [fn |-> fn, args |-> args]

\* float(s): a value, or ValueError for a non-numeric string.  A group that
\* swallowed several comma separated arguments ("2,3") is not a number either.
FloatOk(args) == Len(args) = 1 /\ args[1].num
FloatOf(args) == args[1].v

\* least element of a set of indices, 0 if there is none: where re.search matches first
FirstIndex(S) == IF S = {} THEN 0 ELSE CHOOSE i \in S : \A j \in S : i <= j

Identity == <<0, 0, 1, 1>>
Returned(t) == [raised |-> FALSE, value |-> t]
ValueError == [raised |-> TRUE, value |-> <<>>]

\* main.py's patterns.  translate/scale: group 1 is the first argument, the
\* optional group 2 is everything after the first comma up to the closing
\* parenthesis.  An empty argument list does not match.
TranslateMatches(c) == c.fn = "translate" /\ Len(c.args) >= 1
ScaleMatches(c) == c.fn = "scale" /\ Len(c.args) >= 1
\* matrix: five groups without commas, group 6 is everything up to the parenthesis
MatrixMatches(c) == c.fn = "matrix" /\ Len(c.args) >= 6

\* parse_transform of main.py
parse_transform(transform_str) ==
    IF transform_str = <<>> THEN Returned(Identity)
    ELSE
    LET idx == 1..Len(transform_str)
        ti == FirstIndex({i \in idx : TranslateMatches(transform_str[i])})
        si == FirstIndex({i \in idx : ScaleMatches(transform_str[i])})
        mi == FirstIndex({i \in idx : MatrixMatches(transform_str[i])})
        targs == transform_str[ti].args
        sargs == transform_str[si].args
        margs == transform_str[mi].args
        tOk == ti = 0 \/ (targs[1].num /\ (Len(targs) = 1 \/ FloatOk(Tail(targs))))
        sOk == si = 0 \/ (sargs[1].num /\ (Len(sargs) = 1 \/ FloatOk(Tail(sargs))))
        mOk == mi = 0 \/ ((\A k \in 1..5 : margs[k].num)
                          /\ FloatOk(SubSeq(margs, 6, Len(margs))))
        tx0 == IF ti = 0 THEN 0 ELSE targs[1].v
        ty0 == IF ti = 0 \/ Len(targs) = 1 THEN 0 ELSE FloatOf(Tail(targs))
        sx0 == IF si = 0 THEN 1 ELSE sargs[1].v
        sy0 == IF si = 0 THEN 1 ELSE IF Len(sargs) = 1 THEN sx0 ELSE FloatOf(Tail(sargs))
    IN  IF ~(tOk /\ sOk /\ mOk) THEN ValueError
        ELSE IF mi # 0
             THEN Returned(<<margs[5].v, margs[6].v, margs[1].v, margs[4].v>>)
             ELSE Returned(<<tx0, ty0, sx0, sy0>>)

\* ------------------------------------------------------------------ documents
\* An element: its parent's index (0 for the root), tag, numeric attributes,
\* transform attribute and (root only) viewBox.  Children of a node are the
\* later nodes that name it as parent, in index order (document order).
Node(parent, tag, attrs, transform) ==
    [parent |-> parent, tag |-> tag, attrs |-> attrs, transform |-> transform,
     viewBox |-> <<>>]

Children(d, n) ==
    SelectSeq([i \in 1..Len(d) |-> i], LAMBDA i : d[i].parent = n)

\* Compose with the translation added unweighted (the parent's scale forgotten)
ComposeUnweighted(transform, local) ==
    <<transform[1] + local[1], transform[2] + local[2],
      transform[3] * local[3], transform[4] * local[4]>>

\* Compose with the translation weighted by the element's own scale
ComposeOwnScale(transform, local) ==
    <<transform[1] + local[1] * local[3], transform[2] + local[2] * local[4],
      transform[3] * local[3], transform[4] * local[4]>>

\* tx' = tx + etx*sx, ty' = ty + ety*sy, sx' = sx*esx, sy' = sy*esy
Compose(transform, local) ==
    <<transform[1] + local[1] * transform[3],
      transform[2] + local[2] * transform[4],
      transform[3] * local[3],
      transform[4] * local[4]>>

\* the element's own transform combined with the parent's; skipped when the
\* attribute is absent or empty
NodeTransform(e, transform) ==
    IF e.transform # <<>>
    THEN Compose(transform, parse_transform(e.transform).value)
    ELSE transform

\* re.findall(r'-?\d+\.?\d*', text): the numbers of a text given as its
\* pieces, in order; a piece that is no number (a path command) holds no digit
FindNumbers(text) ==
    LET nums == SelectSeq(text, LAMBDA piece : piece.num)
    IN  [k \in 1..Len(nums) |-> nums[k].v]

\* coords[0::2] and coords[1::2]
EvenSlice(coords) == [k \in 1..((Len(coords) + 1) \div 2) |-> coords[2 * k - 1]]
OddSlice(coords) == [k \in 1..(Len(coords) \div 2) |-> coords[2 * k]]

\* min() and max() of a non-empty list
MinOf(q) == CHOOSE v \in {q[k] : k \in 1..Len(q)} : \A k \in 1..Len(q) : v <= q[k]
MaxOf(q) == CHOOSE v \in {q[k] : k \in 1..Len(q)} : \A k \in 1..Len(q) : v >= q[k]

\* get_path_bounds(path_data), and the same computation made on the points
\* of a polyline or polygon: None for an empty text, for no number, and for
\* an empty x or y list
get_path_bounds(path_data) ==
    LET coords == FindNumbers(path_data)
        x_coords == EvenSlice(coords)
        y_coords == OddSlice(coords)
    IN  IF path_data = <<>> \/ coords = <<>> \/ x_coords = <<>> \/ y_coords = <<>>
        THEN <<>>
        ELSE <<MinOf(x_coords), MinOf(y_coords), MaxOf(x_coords), MaxOf(y_coords)>>

\* the box of one element in its own coordinates, <<>> when it has none
LocalBounds(e) ==
    LET a == e.attrs IN
    CASE e.tag = "rect" ->
            <<Get(a, "x", 0), Get(a, "y", 0),
              Get(a, "x", 0) + Get(a, "width", 0), Get(a, "y", 0) + Get(a, "height", 0)>>
      [] e.tag = "circle" ->
            <<Get(a, "cx", 0) - Get(a, "r", 0), Get(a, "cy", 0) - Get(a, "r", 0),
              Get(a, "cx", 0) + Get(a, "r", 0), Get(a, "cy", 0) + Get(a, "r", 0)>>
      [] e.tag = "ellipse" ->
            <<Get(a, "cx", 0) - Get(a, "rx", 0), Get(a, "cy", 0) - Get(a, "ry", 0),
              Get(a, "cx", 0) + Get(a, "rx", 0), Get(a, "cy", 0) + Get(a, "ry", 0)>>
      [] e.tag = "line" ->
            <<Min2(Get(a, "x1", 0), Get(a, "x2", 0)), Min2(Get(a, "y1", 0), Get(a, "y2", 0)),
              Max2(Get(a, "x1", 0), Get(a, "x2", 0)), Max2(Get(a, "y1", 0), Get(a, "y2", 0))>>
      [] e.tag \in {"polyline", "polygon"} -> get_path_bounds(Get(a, "points", <<>>))
      [] e.tag = "path" -> get_path_bounds(Get(a, "d", <<>>))
      [] e.tag = "text" ->
            <<Get(a, "x", 0), Get(a, "y", 0) - 10, Get(a, "x", 0) + 50, Get(a, "y", 0) + 5>>
      [] OTHER -> <<>>

\* the four coordinates mapped through (tx, ty, sx, sy), each on its own
ApplyTransform(bounds, t) ==
    IF bounds = <<>> THEN <<>>
    ELSE <<bounds[1] * t[3] + t[1], bounds[2] * t[4] + t[2],
           bounds[3] * t[3] + t[1], bounds[4] * t[4] + t[2]>>

\* MergeBounds that keeps the last child's box instead of merging
MergeBoundsOverwrite(bounds, child_bounds) ==
    IF child_bounds = <<>> THEN bounds ELSE child_bounds

\* one turn of the loop over the children: merge the child's box into bounds
MergeBounds(bounds, child_bounds) ==
    IF child_bounds = <<>> THEN bounds
    ELSE IF bounds # <<>>
         THEN <<Min2(bounds[1], child_bounds[1]), Min2(bounds[2], child_bounds[2]),
                Max2(bounds[3], child_bounds[3]), Max2(bounds[4], child_bounds[4])>>
         ELSE child_bounds

RECURSIVE get_content_bounds(_, _, _)
RECURSIVE MergeChildren(_, _, _, _)

\* the loop over the children of a node, in document order
MergeChildren(d, kids, t, bounds) ==
    IF kids = <<>> THEN bounds
    ELSE MergeChildren(d, Tail(kids), t,
                       MergeBounds(bounds, get_content_bounds(d, Head(kids), t)))

\* get_content_bounds(element, transform) on node n of document d
get_content_bounds(d, n, transform) ==
    LET t == NodeTransform(d[n], transform)
    IN  MergeChildren(d, Children(d, n), t, ApplyTransform(LocalBounds(d[n]), t))

\* ------------------------------------------------------------------ cropping
\* parse_svg_dimensions: <<width, height>>, each <<v>> or <<>> (None); when
\* either is missing a four-number viewBox supplies both
parse_svg_dimensions(svg_root) ==
    LET width == IF "width" \in DOMAIN svg_root.attrs
                 THEN <<svg_root.attrs["width"]>> ELSE <<>>
        height == IF "height" \in DOMAIN svg_root.attrs
                  THEN <<svg_root.attrs["height"]>> ELSE <<>>
    IN  IF (width = <<>> \/ height = <<>>) /\ Len(svg_root.viewBox) = 4
        THEN <<(<<svg_root.viewBox[3]>>), (<<svg_root.viewBox[4]>>)>>
        ELSE <<width, height>>

\* Python's "x or 0" on an optional number
OrZero(x) == IF x = <<>> THEN 0 ELSE x[1]

\* CopiedTransform that leaves the transform attribute behind
DroppedTransform(svg_root) == <<>>

\* the attributes the new root takes over from the old one: all of them but
\* width, height and viewBox (the transform attribute is one of them)
CopiedTransform(svg_root) == svg_root.transform

\* NewRootAttrs that sets the three rewritten attributes and copies nothing
NewRootAttrsOnly(svg_root, content_width, content_height) ==
    [k \in {"width", "height"} |->
        IF k = "width" THEN content_width ELSE content_height]

\* the attributes of the new root: width and height set to the content span,
\* every attribute of the old root but width, height and viewBox set again
\* with its value
NewRootAttrs(svg_root, content_width, content_height) ==
    [k \in DOMAIN svg_root.attrs \cup {"width", "height"} |->
        IF k = "width" THEN content_width
        ELSE IF k = "height" THEN content_height
        ELSE svg_root.attrs[k]]

\* crop_svg_to_content on document d: the new document and the returned size
crop_svg_to_content(d) ==
    LET bounds == get_content_bounds(d, 1, Identity)
        content_width == bounds[3] - bounds[1]
        content_height == bounds[4] - bounds[2]
        dims == parse_svg_dimensions(d[1])
        new_root == [parent |-> 0, tag |-> d[1].tag,
                     attrs |-> NewRootAttrs(d[1], content_width, content_height),
                     transform |-> CopiedTransform(d[1]),
                     viewBox |-> <<bounds[1], bounds[2], content_width, content_height>>]
    IN  IF bounds = <<>>
        THEN [doc |-> d, width |-> OrZero(dims[1]), height |-> OrZero(dims[2])]
        ELSE [doc |-> [d EXCEPT ![1] = new_root],
              width |-> content_width, height |-> content_height]

\* ------------------------------------------------------------------ alignment pass (align_axes.py)
\* its parse_transform: the first translate(x, y) with exactly two numeric
\* arguments, else (0, 0); scale and matrix are not read
AlignTranslateMatches(c) ==
    c.fn = "translate" /\ Len(c.args) = 2 /\ c.args[1].num /\ c.args[2].num

align_parse_transform(transform_str) ==
    LET ti == FirstIndex({i \in 1..Len(transform_str) :
                            AlignTranslateMatches(transform_str[i])})
    IN  IF ti = 0 THEN <<0, 0>>
        ELSE <<transform_str[ti].args[1].v, transform_str[ti].args[2].v>>

\* tx += dx, ty += dy
AlignNodeTransform(e, current_transform) ==
    IF e.transform # <<>>
    THEN <<current_transform[1] + align_parse_transform(e.transform)[1],
           current_transform[2] + align_parse_transform(e.transform)[2]>>
    ELSE current_transform

\* tag.endswith(...): polyline ends with line
AlignLocalBounds(e, t) ==
    LET a == e.attrs IN
    CASE e.tag = "rect" ->
            <<t[1] + Get(a, "x", 0), t[2] + Get(a, "y", 0),
              t[1] + Get(a, "x", 0) + Get(a, "width", 0),
              t[2] + Get(a, "y", 0) + Get(a, "height", 0)>>
      [] e.tag \in {"line", "polyline"} ->
            <<Min2(t[1] + Get(a, "x1", 0), t[1] + Get(a, "x2", 0)),
              Min2(t[2] + Get(a, "y1", 0), t[2] + Get(a, "y2", 0)),
              Max2(t[1] + Get(a, "x1", 0), t[1] + Get(a, "x2", 0)),
              Max2(t[2] + Get(a, "y1", 0), t[2] + Get(a, "y2", 0))>>
      [] e.tag = "text" ->
            <<t[1] + Get(a, "x", 0), t[2] + Get(a, "y", 0),
              t[1] + Get(a, "x", 0), t[2] + Get(a, "y", 0)>>
      [] OTHER -> <<>>

\* min/max against the (inf, inf, -inf, -inf) start value, written <<>>
SentinelMerge(bounds, child_bounds) ==
    IF child_bounds = <<>> THEN bounds
    ELSE IF bounds = <<>> THEN child_bounds
    ELSE <<Min2(bounds[1], child_bounds[1]), Min2(bounds[2], child_bounds[2]),
           Max2(bounds[3], child_bounds[3]), Max2(bounds[4], child_bounds[4])>>

RECURSIVE align_get_element_bounds(_, _, _)
RECURSIVE AlignMergeChildren(_, _, _, _)

AlignMergeChildren(d, kids, t, bounds) ==
    IF kids = <<>> THEN bounds
    ELSE AlignMergeChildren(d, Tail(kids), t,
             SentinelMerge(bounds, align_get_element_bounds(d, Head(kids), t)))

\* get_element_bounds(element, current_transform) of align_axes.py
align_get_element_bounds(d, n, current_transform) ==
    LET t == AlignNodeTransform(d[n], current_transform)
    IN  AlignMergeChildren(d, Children(d, n), t, AlignLocalBounds(d[n], t))

\* ------------------------------------------------------------------ extraction variant (extract_panel_svg_og.py)
\* transforms are <<a, b, c, d, e, f>>
MatrixIdentity == <<1, 0, 0, 1, 0, 0>>

ExtractMatrixMatches(c) ==
    c.fn = "matrix" /\ Len(c.args) = 6 /\ \A k \in 1..6 : c.args[k].num
ExtractScaleMatches(c) ==
    c.fn = "scale" /\ Len(c.args) \in {1, 2} /\ \A k \in 1..Len(c.args) : c.args[k].num

\* parse_transform_matrix: the first form found wins, in the order matrix,
\* translate, scale
parse_transform_matrix(transform_str) ==
    LET idx == 1..Len(transform_str)
        mi == FirstIndex({i \in idx : ExtractMatrixMatches(transform_str[i])})
        ti == FirstIndex({i \in idx : AlignTranslateMatches(transform_str[i])})
        si == FirstIndex({i \in idx : ExtractScaleMatches(transform_str[i])})
        m == transform_str[mi].args
        t == transform_str[ti].args
        sc == transform_str[si].args
    IN  IF mi # 0 THEN <<m[1].v, m[2].v, m[3].v, m[4].v, m[5].v, m[6].v>>
        ELSE IF ti # 0 THEN <<1, 0, 0, 1, t[1].v, t[2].v>>
        ELSE IF si # 0
             THEN <<sc[1].v, 0, 0, (IF Len(sc) = 2 THEN sc[2].v ELSE sc[1].v), 0, 0>>
        ELSE MatrixIdentity

\* combined_transform: a and d multiply, b, c, e and f add
ExtractNodeTransform(e, parent_transform) ==
    LET l == parse_transform_matrix(e.transform)
    IN  <<parent_transform[1] * l[1], parent_transform[2] + l[2],
          parent_transform[3] + l[3], parent_transform[4] * l[4],
          parent_transform[5] + l[5], parent_transform[6] + l[6]>>

ExtractLocalBounds(e, t) ==
    LET a == e.attrs IN
    CASE e.tag = "rect" ->
            <<t[1] * Get(a, "x", 0) + t[5], t[4] * Get(a, "y", 0) + t[6],
              t[1] * Get(a, "x", 0) + t[5] + t[1] * Get(a, "width", 0),
              t[4] * Get(a, "y", 0) + t[6] + t[4] * Get(a, "height", 0)>>
      [] e.tag = "line" ->
            <<Min2(t[1] * Get(a, "x1", 0) + t[5], t[1] * Get(a, "x2", 0) + t[5]),
              Min2(t[4] * Get(a, "y1", 0) + t[6], t[4] * Get(a, "y2", 0) + t[6]),
              Max2(t[1] * Get(a, "x1", 0) + t[5], t[1] * Get(a, "x2", 0) + t[5]),
              Max2(t[4] * Get(a, "y1", 0) + t[6], t[4] * Get(a, "y2", 0) + t[6])>>
      [] e.tag = "text" ->
            <<t[1] * Get(a, "x", 0) + t[5], t[4] * Get(a, "y", 0) + t[6] - 10,
              t[1] * Get(a, "x", 0) + t[5] + 50, t[4] * Get(a, "y", 0) + t[6]>>
      [] OTHER -> <<>>

RECURSIVE extract_get_element_bounds(_, _, _)
RECURSIVE ExtractMergeChildren(_, _, _, _)

ExtractMergeChildren(d, kids, t, bounds) ==
    IF kids = <<>> THEN bounds
    ELSE ExtractMergeChildren(d, Tail(kids), t,
             SentinelMerge(bounds, extract_get_element_bounds(d, Head(kids), t)))

\* get_element_bounds(element, parent_transform) of extract_panel_svg_og.py
extract_get_element_bounds(d, n, parent_transform) ==
    LET t == ExtractNodeTransform(d[n], parent_transform)
    IN  ExtractMergeChildren(d, Children(d, n), t, ExtractLocalBounds(d[n], t))

\* ------------------------------------------------------------------ cumulative transforms
\* the transform each walk has in hand at node n when started on the root
\* with its default argument
RECURSIVE Cumulative(_, _)
Cumulative(d, n) ==
    NodeTransform(d[n], IF d[n].parent = 0 THEN Identity ELSE Cumulative(d, d[n].parent))

RECURSIVE AlignCumulative(_, _)
AlignCumulative(d, n) ==
    AlignNodeTransform(d[n], IF d[n].parent = 0 THEN <<0, 0>>
                             ELSE AlignCumulative(d, d[n].parent))

RECURSIVE ExtractCumulative(_, _)
ExtractCumulative(d, n) ==
    ExtractNodeTransform(d[n], IF d[n].parent = 0 THEN MatrixIdentity
                               ELSE ExtractCumulative(d, d[n].parent))

\* ------------------------------------------------------------------ the documents tried
NoTransform == <<>>
Translate55 == <<Call("translate", <<Num(5), Num(5)>>)>>
Scale2 == <<Call("scale", <<Num(2)>>)>>
ScaleFlip == <<Call("scale", <<Num(-1)>>)>>
TranslateScale == <<Call("translate", <<Num(3), Num(4)>>), Call("scale", <<Num(2), Num(3)>>)>>

RectA == [x |-> 0, y |-> 0, width |-> 10, height |-> 10]
RectB == [x |-> 20, y |-> 5, width |-> 5, height |-> 5]
NoAttrs == [k \in {} |-> 0]

\* points="3,4 1,8 -7": two pairs and an unpaired number; points=""
PointsOdd == <<Num(3), Num(4), Num(1), Num(8), Num(-7)>>
PointsEmpty == <<>>

\* what a child element may be: <<tag, attributes, transform>>
NodeChoices ==
    {<<"g", NoAttrs, Translate55>>, <<"g", NoAttrs, Scale2>>,
     <<"g", NoAttrs, ScaleFlip>>, <<"g", NoAttrs, TranslateScale>>,
     <<"rect", RectA, NoTransform>>, <<"rect", RectA, Translate55>>,
     <<"rect", RectB, NoTransform>>, <<"text", [x |-> 0, y |-> 0], NoTransform>>,
     <<"polygon", [points |-> PointsOdd], NoTransform>>,
     <<"polyline", [points |-> PointsEmpty], NoTransform>>}

\* an id attribute, as the pieces of its text
FigureId == <<"figure", "_", "1">>

\* the root elements tried: an svg element with declared size, bare or with
\* a transform and an id
Roots ==
    {Node(0, "svg", [width |-> 100, height |-> 50], NoTransform),
     Node(0, "svg", [width |-> 100, height |-> 50, id |-> FigureId], Scale2)}

\* the cumulative transforms a caller may pass
CumulativeTransforms == {Identity, <<0, 0, 2, 2>>, <<3, 1, -2, 1>>}

NoCall == [op |-> "none", node |-> 0, transform |-> <<>>, out |-> <<>>]
NotParsed == [raised |-> FALSE, value |-> <<>>]
NotRun == [status |-> "none"]

\* ------------------------------------------------------------------ specification of the bounds engine
Init ==
    /\ doc \in {<<r>> : r \in Roots}
    /\ res = NoCall
    /\ attr = <<>>
    /\ parsed = NotParsed
    /\ panels = <<>>
    /\ composite = NotRun

\* the parser hands over the next element of the document, as the last child
\* of p; the document is complete before any call is made on it
AppendChild(p, c) ==
    /\ res = NoCall
    /\ Len(doc) < MaxNodes
    /\ doc' = Append(doc, Node(p, c[1], c[2], c[3]))
    /\ res' = NoCall
    /\ UNCHANGED <<attr, parsed, panels, composite>>

\* a call is made on the parsed document, or on the document a crop returned
Callable == res.op \in {"none", "crop_svg_to_content"}

GetContentBounds(n, t) ==
    /\ Callable
    /\ res' = [op |-> "get_content_bounds", node |-> n, transform |-> t,
               out |-> get_content_bounds(doc, n, t)]
    /\ UNCHANGED <<doc, attr, parsed, panels, composite>>

CropSvgToContent ==
    LET r == crop_svg_to_content(doc) IN
    /\ Callable
    /\ doc' = r.doc
    /\ res' = [op |-> "crop_svg_to_content", node |-> 1, transform |-> Identity,
               out |-> <<r.width, r.height>>]
    /\ UNCHANGED <<attr, parsed, panels, composite>>

AlignGetElementBounds(n) ==
    /\ Callable
    /\ res' = [op |-> "align_get_element_bounds", node |-> n, transform |-> <<0, 0>>,
               out |-> align_get_element_bounds(doc, n, <<0, 0>>)]
    /\ UNCHANGED <<doc, attr, parsed, panels, composite>>

ExtractGetElementBounds(n) ==
    /\ Callable
    /\ res' = [op |-> "extract_get_element_bounds", node |-> n,
               transform |-> MatrixIdentity,
               out |-> extract_get_element_bounds(doc, n, MatrixIdentity)]
    /\ UNCHANGED <<doc, attr, parsed, panels, composite>>

Next ==
    \/ \E p \in 1..Len(doc), c \in NodeChoices : AppendChild(p, c)
    \/ \E n \in 1..Len(doc), t \in CumulativeTransforms : GetContentBounds(n, t)
    \/ CropSvgToContent
    \/ \E n \in 1..Len(doc) : AlignGetElementBounds(n)
    \/ \E n \in 1..Len(doc) : ExtractGetElementBounds(n)

Spec == Init /\ [][Next]_vars

\* ------------------------------------------------------------------ properties of the bounds engine
\* the local transform of an element as four numbers, identity when it has none
LocalOf(e) == IF e.transform # <<>> THEN parse_transform(e.transform).value ELSE Identity

\* the node indices from the root down to n
RECURSIVE PathTo(_, _)
PathTo(d, n) == IF d[n].parent = 0 THEN <<n>> ELSE Append(PathTo(d, d[n].parent), n)

\* C1: get_content_bounds composes the parent's cumulative transform with the
\* node's local one as tx' = tx + etx*sx, ty' = ty + ety*sy, sx' = sx*esx,
\* sy' = sy*esy and maps the node's local box through the result; a rect
\* (0,0,10,10) with translate(5,5) under a parent scale(2) gives (10,10,30,30).
CompositionRule ==
    res.op = "get_content_bounds" =>
        LET e == doc[res.node]
            p == res.transform
            l == LocalOf(e)
            tx == p[1] + l[1] * p[3]
            ty == p[2] + l[2] * p[4]
            sx == p[3] * l[3]
            sy == p[4] * l[4]
            b == LocalBounds(e)
            own == IF b = <<>> THEN <<>>
                   ELSE <<b[1] * sx + tx, b[2] * sy + ty, b[3] * sx + tx, b[4] * sy + ty>>
        IN  /\ res.out = MergeChildren(doc, Children(doc, res.node), <<tx, ty, sx, sy>>, own)
            /\ (Children(doc, res.node) = <<>> => res.out = own)
            /\ (/\ e.tag = "rect" /\ e.attrs = RectA /\ e.transform = Translate55
                /\ p = <<0, 0, 2, 2>> /\ Children(doc, res.node) = <<>>
                => res.out = <<10, 10, 30, 30>>)

\* C1 witness: the bounds of the rect (0,0,10,10) with translate(5,5) were
\* asked for under the cumulative transform scale(2)
CompositionRuleWitness ==
    /\ res.op = "get_content_bounds"
    /\ doc[res.node].tag = "rect" /\ doc[res.node].attrs = RectA
    /\ doc[res.node].transform = Translate55
    /\ res.transform = <<0, 0, 2, 2>>
    /\ res.out = <<10, 10, 30, 30>>

\* box new contains box old; a present box stays present
Contains(new, old) ==
    old = <<>> \/ (/\ new # <<>>
                   /\ new[1] <= old[1] /\ new[2] <= old[2]
                   /\ new[3] >= old[3] /\ new[4] >= old[4])

\* C3: appending one more child to any node of a subtree gives, for every
\* subtree root and every cumulative transform, an aggregate box that contains
\* the box computed before, and a present box never becomes absent.
BoundsMonotonic ==
    [][Len(doc') = Len(doc) + 1 =>
        \A n \in 1..Len(doc), t \in CumulativeTransforms :
            Contains(get_content_bounds(doc', n, t), get_content_bounds(doc, n, t))]_vars

\* C3 witness: the last child appended came after content that already had a
\* box, and the aggregate box of the document is not the one without it
BoundsMonotonicWitness ==
    /\ Len(doc) >= 3
    /\ get_content_bounds(SubSeq(doc, 1, Len(doc) - 1), 1, Identity) # <<>>
    /\ get_content_bounds(doc, 1, Identity)
         # get_content_bounds(SubSeq(doc, 1, Len(doc) - 1), 1, Identity)

\* C4: cropping the result of a crop returns the same width, height and
\* viewBox offset as the first crop did, for a document whose content has bounds.
CropIdempotent ==
    (res.op = "crop_svg_to_content" /\ get_content_bounds(doc, 1, Identity) # <<>>) =>
        LET again == crop_svg_to_content(doc)
        IN  /\ again.width = res.out[1]
            /\ again.height = res.out[2]
            /\ again.doc[1].viewBox[1] = doc[1].viewBox[1]
            /\ again.doc[1].viewBox[2] = doc[1].viewBox[2]

\* C4 witness: a document with a root transform and content off the origin was cropped
CropIdempotentWitness ==
    /\ res.op = "crop_svg_to_content"
    /\ doc[1].transform # <<>>
    /\ Len(doc[1].viewBox) = 4
    /\ doc[1].viewBox[1] # 0
    /\ res.out[1] > 0

\* the chain of local transforms composed from the node upwards (right to left)
RECURSIVE RightFold(_, _)
RightFold(d, path) ==
    IF path = <<>> THEN Identity
    ELSE Compose(LocalOf(d[Head(path)]), RightFold(d, Tail(path)))

\* C5: composing a chain of three or more local transforms grouped as
\* (A.B).C gives the same (tx, ty, sx, sy) as A.(B.C): the cumulative
\* transform of a node is the same folded from the root downwards and from
\* the node upwards.
CompositionAssociative ==
    \A n \in 1..Len(doc) :
        LET path == PathTo(doc, n) IN
        /\ Cumulative(doc, n) = RightFold(doc, path)
        /\ Len(path) >= 3 =>
              LET A == LocalOf(doc[path[1]])
                  B == LocalOf(doc[path[2]])
                  C == LocalOf(doc[path[3]])
              IN  Compose(Compose(A, B), C) = Compose(A, Compose(B, C))

\* C5 witness: a node three levels deep whose chain has a transform on every
\* level, with both a translation and a scale in effect
CompositionAssociativeWitness ==
    \E n \in 1..Len(doc) :
        /\ Len(PathTo(doc, n)) >= 3
        /\ \A k \in 1..3 : doc[PathTo(doc, n)[k]].transform # <<>>
        /\ Cumulative(doc, n)[1] # 0
        /\ Cumulative(doc, n)[3] # 1

\* C7: every box get_content_bounds returns has minX <= maxX and minY <= maxY,
\* negative scales included.
BoundsNormalized ==
    (res.op = "get_content_bounds" /\ res.out # <<>>) =>
        (res.out[1] <= res.out[3] /\ res.out[2] <= res.out[4])

\* C8: the alignment pass and the extraction variant apply to every node the
\* same cumulative transform as get_content_bounds does: after either walk
\* of the document, the transform it had in hand at each node is the
\* canonical one (scale-weighted translation, multiplicative scale).
SingleTransformModel ==
    \A n \in 1..Len(doc) :
        LET m == Cumulative(doc, n)
            a == AlignCumulative(doc, n)
            x == ExtractCumulative(doc, n)
        IN  /\ (res.op = "align_get_element_bounds" /\ res.node = 1)
                => <<a[1], a[2], 1, 1>> = m
            /\ (res.op = "extract_get_element_bounds" /\ res.node = 1)
                => <<x[5], x[6], x[1], x[4]>> = m

\* ------------------------------------------------------------------ specification of parse_transform
\* the arguments tried: a number, a negative number, a word that is no number
Tokens == {Num(2), Num(-3), Word}
ArgLists ==
    {<<>>} \cup {<<a>> : a \in Tokens} \cup {<<a, b>> : a, b \in Tokens}
           \cup {<<Num(2), Num(-3), Num(2)>>}
MatrixArgLists ==
    {<<Num(2), Num(0), Num(0), Num(-3), Num(5), Num(7)>>,
     <<Num(2), Num(0), Num(0), Word, Num(5), Num(7)>>,
     <<Num(2), Num(0), Num(0), Num(-3), Num(5)>>,
     <<Num(2), Num(0), Num(0), Num(-3), Num(5), Num(7), Num(1)>>}
CallChoices ==
    {Call(fn, a) : fn \in {"translate", "scale"}, a \in ArgLists}
        \cup {Call("matrix", a) : a \in MatrixArgLists}

ParseInit ==
    /\ attr = <<>>
    /\ parsed = NotParsed
    /\ doc = <<Node(0, "svg", NoAttrs, NoTransform)>>
    /\ res = NoCall
    /\ panels = <<>>
    /\ composite = NotRun

\* the attribute string as written in the document, one function after another
AppendCall(c) ==
    /\ parsed = NotParsed
    /\ Len(attr) < MaxCalls
    /\ attr' = Append(attr, c)
    /\ UNCHANGED <<parsed, doc, res, panels, composite>>

ParseTransform ==
    /\ parsed = NotParsed
    /\ parsed' = parse_transform(attr)
    /\ UNCHANGED <<attr, doc, res, panels, composite>>

ParseNext ==
    \/ \E c \in CallChoices : AppendCall(c)
    \/ ParseTransform

ParseSpec == ParseInit /\ [][ParseNext]_vars

\* C6: parse_transform never fails: for every attribute string it returns a
\* (tx, ty, sx, sy) tuple, the identity for an absent or empty one, and the
\* identity instead of an error for one whose arguments are not numbers.
ParseTransformTotal ==
    parsed # NotParsed =>
        /\ ~parsed.raised
        /\ Len(parsed.value) = 4
        /\ attr = <<>> => parsed.value = Identity
        /\ (\E i \in 1..Len(attr) : \E k \in 1..Len(attr[i].args) : ~attr[i].args[k].num)
             => parsed.value = Identity

\* ------------------------------------------------------------------ exact rationals <<numerator, denominator>>
RECURSIVE GCD(_, _)
GCD(a, b) == IF b = 0 THEN a ELSE GCD(b, a % b)

\* n/d in lowest terms with a positive denominator (d > 0)
Rat(n, d) == LET g == GCD(Abs(n), d) IN <<n \div g, d \div g>>
RInt(n) == <<n, 1>>
RLcm(a, b) == (a[2] \div GCD(a[2], b[2])) * b[2]
RAdd(a, b) ==
    LET l == RLcm(a, b) IN Rat(a[1] * (l \div a[2]) + b[1] * (l \div b[2]), l)
RNeg(a) == <<-a[1], a[2]>>
RSub(a, b) == RAdd(a, RNeg(b))
RMul(a, b) ==
    LET g1 == GCD(Abs(a[1]), b[2])
        g2 == GCD(Abs(b[1]), a[2])
    IN  <<(a[1] \div g1) * (b[1] \div g2), (a[2] \div g2) * (b[2] \div g1)>>
\* a / b for b # 0
RDiv(a, b) == RMul(a, IF b[1] > 0 THEN <<b[2], b[1]>> ELSE <<-b[2], -b[1]>>)
RLe(a, b) == LET l == RLcm(a, b) IN a[1] * (l \div a[2]) <= b[1] * (l \div b[2])
RLt(a, b) == ~RLe(b, a)
RMax(a, b) == IF RLe(b, a) THEN a ELSE b
RAbs(a) == <<Abs(a[1]), a[2]>>

RECURSIVE RSum(_)
RSum(q) == IF q = <<>> THEN RInt(0) ELSE RAdd(Head(q), RSum(Tail(q)))
RECURSIVE RMaxSeq(_)
RMaxSeq(q) == IF Len(q) = 1 THEN q[1] ELSE RMax(Head(q), RMaxSeq(Tail(q)))

\* ------------------------------------------------------------------ panel layout
\* publisher widths in tenths of a millimetre
PUBLISHER_SIZES ==
    [p \in {"ieee-access", "ieee-trans", "ieee-proc", "nature"} |->
        [l \in {"single", "double", "full"} |->
            IF p = "nature"
            THEN (IF l = "single" THEN 890 ELSE IF l = "double" THEN 1830 ELSE 2470)
            ELSE (IF l = "single" THEN 889 ELSE 1830)]]

\* mm * 90.0 / 25.4, mm given in tenths
mm_to_px(mm10) == Rat(mm10 * 90, 254)

\* LoadPanels that gives up at the first file that fails to load
LoadPanelsUntilFailure(files) ==
    LET bad == FirstIndex({i \in 1..Len(files) : files[i] = <<>>})
    IN  IF bad = 0 THEN files ELSE SubSeq(files, 1, bad - 1)

\* the files that ET.parse could load, in input order; <<>> is a file that fails to load
LoadPanels(files) == SelectSeq(files, LAMBDA f : f # <<>>)

\* (num_panels + max_per_row - 1) // max_per_row with the rounding forgotten
num_rows_floor(num_panels, max_per_row) == num_panels \div max_per_row

num_rows(num_panels, max_per_row) == (num_panels + max_per_row - 1) \div max_per_row
num_cols(num_panels, max_per_row) == Min2(num_panels, max_per_row)

\* the loop that crops every panel and collects the new roots
RECURSIVE CropAll(_)
CropAll(trees) ==
    IF trees = <<>> THEN <<>>
    ELSE <<crop_svg_to_content(Head(trees)).doc>> \o CropAll(Tail(trees))

\* the panel trees after the optional crop
PanelTrees(loaded, args) == IF args.crop THEN CropAll(loaded) ELSE loaded

\* the loop that collects (width or 0, height or 0) of every panel
RECURSIVE PanelDims(_)
PanelDims(trees) ==
    IF trees = <<>> THEN <<>>
    ELSE LET wh == parse_svg_dimensions(Head(trees)[1])
         IN  <<(<<RInt(OrZero(wh[1])), RInt(OrZero(wh[2]))>>)>> \o PanelDims(Tail(trees))

Widths(dims) == [i \in 1..Len(dims) |-> dims[i][1]]
Heights(dims) == [i \in 1..Len(dims) |-> dims[i][2]]

\* Gaps with gap_ratio looked at before tight
GapsRatioFirst(dims, args) ==
    IF args.gap_ratio # <<>>
    THEN <<RMul(RDiv(RSum(Widths(dims)), RInt(Len(dims))), args.gap_ratio[1]),
           RMul(RDiv(RSum(Heights(dims)), RInt(Len(dims))), args.gap_ratio[1])>>
    ELSE IF args.tight THEN <<RInt(0), RInt(0)>>
    ELSE <<args.col_gap, args.row_gap>>

\* <<col_gap, row_gap>>: tight first, then gap_ratio, else the fixed gaps
Gaps(dims, args) ==
    IF args.tight THEN <<RInt(0), RInt(0)>>
    ELSE IF args.gap_ratio # <<>>
    THEN <<RMul(RDiv(RSum(Widths(dims)), RInt(Len(dims))), args.gap_ratio[1]),
           RMul(RDiv(RSum(Heights(dims)), RInt(Len(dims))), args.gap_ratio[1])>>
    ELSE <<args.col_gap, args.row_gap>>

\* whether the publisher/layout pair is given and in the table
PublisherKnown(args) ==
    /\ args.outer_publisher # "" /\ args.outer_layout # ""
    /\ args.outer_publisher \in DOMAIN PUBLISHER_SIZES
    /\ args.outer_layout \in DOMAIN PUBLISHER_SIZES[args.outer_publisher]

\* the factor applied to max_width and max_height (1 when nothing is applied)
PublisherScale(dims, col_gap, args) ==
    LET cols == RInt(num_cols(Len(dims), args.max_per_row))
        total_content_width ==
            RAdd(RMul(cols, RMaxSeq(Widths(dims))), RMul(RSub(cols, RInt(1)), col_gap))
    IN  IF PublisherKnown(args) /\ RLt(RInt(0), total_content_width)
        THEN RDiv(mm_to_px(PUBLISHER_SIZES[args.outer_publisher][args.outer_layout]),
                  total_content_width)
        ELSE RInt(1)

\* <<max_width, max_height>> as used for the totals and the placement
CellSize(dims, scale) ==
    <<RMul(RMaxSeq(Widths(dims)), scale), RMul(RMaxSeq(Heights(dims)), scale)>>

\* n * cell + (n - 1) * gap + 2 * outer_pad
TotalExtent(n, cell, gap, outer_pad) ==
    RAdd(RAdd(RMul(RInt(n), cell), RMul(RInt(n - 1), gap)), RMul(RInt(2), outer_pad))

\* PanelOffset with the gap left out
PanelOffsetNoGap(k, cell, gap, outer_pad) == RAdd(outer_pad, RMul(RInt(k), cell))

\* outer_pad + k * (cell + gap): the x of column k, the y of row k
PanelOffset(k, cell, gap, outer_pad) == RAdd(outer_pad, RMul(RInt(k), RAdd(cell, gap)))

\* the label appended to a panel's group: a text element at (5, 15) holding
\* chr(ord(panel_label_first) + idx)
LabelNode(args, idx) ==
    [parent |-> 0, tag |-> "text", attrs |-> [x |-> 5, y |-> 15],
     transform |-> <<>>, viewBox |-> <<>>, text |-> args.panel_label_first + idx]

\* a child of a panel's group: the element and the index it had in the
\* panel's tree (0 for an element the composition made)
GroupChild(src, node) == [src |-> src, node |-> node]

\* GroupChildren with the label made before the content is copied
GroupChildrenLabelFirst(tree, args, idx) ==
    (IF args.add_panel_label THEN <<GroupChild(0, LabelNode(args, idx))>> ELSE <<>>)
    \o [k \in 1..Len(Children(tree, 1)) |->
            GroupChild(Children(tree, 1)[k], tree[Children(tree, 1)[k]])]

\* the children of the group of panel idx: the children of the panel's root
\* appended one by one, then the label
GroupChildren(tree, args, idx) ==
    [k \in 1..Len(Children(tree, 1)) |->
        GroupChild(Children(tree, 1)[k], tree[Children(tree, 1)[k]])]
    \o (IF args.add_panel_label THEN <<GroupChild(0, LabelNode(args, idx))>> ELSE <<>>)

\* the group of panel idx (0-based): its translate, its children, and the
\* panel's tree the children and their subtrees come from
PanelGroup(tree, args, idx, cell, gaps) ==
    LET row == idx \div args.max_per_row
        col == idx % args.max_per_row
    IN  [row |-> row, col |-> col,
         x |-> PanelOffset(col, cell[1], gaps[1], args.outer_pad),
         y |-> PanelOffset(row, cell[2], gaps[2], args.outer_pad),
         panel |-> idx,
         tree |-> tree,
         children |-> GroupChildren(tree, args, idx)]

\* the document written: its size, the gaps and the cell it was laid out
\* with, and one group per panel
ComposeCells(trees, gaps, cell, args) ==
    [status |-> "written", args |-> args,
     col_gap |-> gaps[1], row_gap |-> gaps[2],
     max_width |-> cell[1], max_height |-> cell[2],
     width |-> TotalExtent(num_cols(Len(trees), args.max_per_row), cell[1], gaps[1],
                           args.outer_pad),
     height |-> TotalExtent(num_rows(Len(trees), args.max_per_row), cell[2], gaps[2],
                            args.outer_pad),
     groups |-> [i \in 1..Len(trees) |-> PanelGroup(trees[i], args, i - 1, cell, gaps)]]

\* the cell: the largest width and height, scaled for the publisher
ComposeSpaced(trees, dims, gaps, args) ==
    ComposeCells(trees, gaps, CellSize(dims, PublisherScale(dims, gaps[1], args)), args)

\* the gaps in effect for the sizes found
ComposeSized(trees, dims, args) == ComposeSpaced(trees, dims, Gaps(dims, args), args)

\* the sizes of the panels, cropped first when asked for
ComposeLoaded(loaded, args) ==
    ComposeSized(PanelTrees(loaded, args), PanelDims(PanelTrees(loaded, args)), args)

\* create_composite_svg(panels, output_path, args): what is written, with the call's arguments
create_composite_svg(files, args) ==
    IF LoadPanels(files) = <<>> THEN [status |-> "failed", args |-> args]
    ELSE ComposeLoaded(LoadPanels(files), args)

\* ------------------------------------------------------------------ specification of the layout engine
PanelA == <<Node(0, "svg", [width |-> 100, height |-> 50], NoTransform),
            Node(1, "rect", RectB, NoTransform)>>
PanelB == <<Node(0, "svg", [width |-> 60, height |-> 80], NoTransform),
            Node(1, "g", NoAttrs, Translate55),
            Node(2, "rect", RectA, NoTransform),
            Node(1, "text", [x |-> 0, y |-> 0], NoTransform)>>
\* a document with no declared size and no content
PanelEmpty == <<Node(0, "svg", NoAttrs, NoTransform)>>
Unloadable == <<>>
\* a document wider than every publisher's single column
PanelWide == <<Node(0, "svg", [width |-> 400, height |-> 100], NoTransform),
               Node(1, "rect", RectA, NoTransform)>>
PanelFiles == {PanelA, PanelB, PanelEmpty, PanelWide, Unloadable}

FirstLabel == 97    \* ord('a'), the default of --panel-label-first

AllArgs ==
    [max_per_row : {1, 2},
     col_gap : {RInt(0), RInt(10)},
     row_gap : {RInt(5)},
     outer_pad : {RInt(0), RInt(10)},
     outer_publisher : {"", "nature", "acme"},
     outer_layout : {"", "single"},
     crop : BOOLEAN,
     tight : BOOLEAN,
     gap_ratio : {<<>>, <<Rat(1, 10)>>},
     add_panel_label : BOOLEAN,
     panel_label_first : {FirstLabel}]

\* the argument records tried: publisher and layout are given together or not
\* at all, an overriding option (tight, gap_ratio) is tried against the
\* nonzero fixed gap only, and a publisher that is not in the table is tried
\* without crop, labels and padding
ArgChoices ==
    {a \in AllArgs :
        /\ (a.outer_publisher = "") = (a.outer_layout = "")
        /\ (a.tight \/ a.gap_ratio # <<>>) => a.col_gap = RInt(10)
        /\ a.outer_publisher = "acme" =>
              (~a.crop /\ ~a.add_panel_label /\ a.outer_pad = RInt(0))}

LayoutInit ==
    /\ panels = <<>>
    /\ composite = NotRun
    /\ doc = <<Node(0, "svg", NoAttrs, NoTransform)>>
    /\ res = NoCall
    /\ attr = <<>>
    /\ parsed = NotParsed

\* one more panel file on the command line
AddPanel(f) ==
    /\ composite = NotRun
    /\ Len(panels) < MaxPanels
    /\ panels' = Append(panels, f)
    /\ UNCHANGED <<composite, doc, res, attr, parsed>>

CreateCompositeSvg(args) ==
    /\ composite = NotRun
    /\ composite' = create_composite_svg(panels, args)
    /\ UNCHANGED <<panels, doc, res, attr, parsed>>

LayoutNext ==
    \/ \E f \in PanelFiles : AddPanel(f)
    \/ \E args \in ArgChoices : CreateCompositeSvg(args)

LayoutSpec == LayoutInit /\ [][LayoutNext]_vars

\* ------------------------------------------------------------------ properties of the layout engine
\* the sizes and gaps the call worked with, from the files and arguments given
LoadedDims == PanelDims(PanelTrees(LoadPanels(panels), composite.args))
LoadedGaps == Gaps(LoadedDims, composite.args)

\* the largest of the values q[1..n]
Largest(q) == CHOOSE w \in {q[i] : i \in 1..Len(q)} : \A i \in 1..Len(q) : RLe(q[i], w)

\* C2: with a known publisher/layout pair of target width W px and at least
\* one panel of nonzero width, the composite's total width equals W within
\* tolerance (0.5 px), whatever the panels, maxPerRow, colGap and outerPad.
PublisherWidthMet ==
    (/\ composite.status = "written"
     /\ PublisherKnown(composite.args)
     /\ \E i \in 1..Len(LoadedDims) : LoadedDims[i][1] # RInt(0)) =>
        LET a == composite.args
            W == Rat(PUBLISHER_SIZES[a.outer_publisher][a.outer_layout] * 900, 2540)
        IN  RLe(RAbs(RSub(composite.width, W)), Rat(1, 2))

\* C9: with N >= 1 loaded panels and no publisher target, rows = ceil(N /
\* maxPerRow), cols = min(N, maxPerRow), one cell of the maximum panel width
\* and height, total width = cols*cellWidth + (cols-1)*colGap + 2*outerPad and
\* total height = rows*cellHeight + (rows-1)*rowGap + 2*outerPad; two 100x50
\* panels with maxPerRow 2, colGap 10, outerPad 0 give 210 by 50.
GridTotals ==
    (composite.status = "written" /\ composite.args.outer_publisher = "") =>
        LET a == composite.args
            N == Len(LoadPanels(panels))
            m == a.max_per_row
            rows == CHOOSE r \in 1..N : r * m >= N /\ (r - 1) * m < N
            cols == IF N < m THEN N ELSE m
            cellWidth == Largest(Widths(LoadedDims))
            cellHeight == Largest(Heights(LoadedDims))
            pad2 == RAdd(a.outer_pad, a.outer_pad)
        IN  /\ N >= 1
            /\ composite.width =
                 RAdd(RAdd(RMul(RInt(cols), cellWidth),
                           RMul(RInt(cols - 1), LoadedGaps[1])), pad2)
            /\ composite.height =
                 RAdd(RAdd(RMul(RInt(rows), cellHeight),
                           RMul(RInt(rows - 1), LoadedGaps[2])), pad2)
            /\ (/\ panels = <<PanelA, PanelA>> /\ m = 2 /\ a.col_gap = RInt(10)
                /\ a.outer_pad = RInt(0) /\ ~a.crop /\ ~a.tight /\ a.gap_ratio = <<>>
                => composite.width = RInt(210) /\ composite.height = RInt(50))

\* C9 witness: three loaded panels, two per row, no publisher: two rows, the
\* second one with a single panel, with gaps and padding in effect
GridTotalsWitness ==
    /\ composite.status = "written"
    /\ composite.args.outer_publisher = ""
    /\ composite.args.max_per_row = 2
    /\ Len(composite.groups) = 3
    /\ composite.groups[3].row = 1
    /\ LoadedGaps[1] # RInt(0)
    /\ composite.args.outer_pad # RInt(0)
    /\ RLt(RInt(0), composite.width)

\* C10: panel i (0-based, among the loaded panels, in input order) is put at
\* x = outerPad + (i mod maxPerRow)*(cellWidth+colGap), y = outerPad +
\* (i div maxPerRow)*(cellHeight+rowGap) with the final cell sizes, and no
\* two panels get the same (row, col).
PanelPlacement ==
    composite.status = "written" =>
        LET a == composite.args
            m == a.max_per_row
            cell == CellSize(LoadedDims, PublisherScale(LoadedDims, LoadedGaps[1], a))
            stepX == RAdd(cell[1], LoadedGaps[1])
            stepY == RAdd(cell[2], LoadedGaps[2])
        IN  /\ Len(composite.groups) = Len(LoadPanels(panels))
            /\ \A i \in 1..Len(composite.groups) :
                LET g == composite.groups[i] IN
                /\ g.panel = i - 1
                /\ g.x = RAdd(a.outer_pad, RMul(RInt((i - 1) % m), stepX))
                /\ g.y = RAdd(a.outer_pad, RMul(RInt((i - 1) \div m), stepY))
                /\ \A j \in 1..Len(composite.groups) :
                     j # i => <<g.row, g.col>> # <<composite.groups[j].row,
                                                  composite.groups[j].col>>

\* C10 witness: three panels, two per row, under a known publisher target:
\* the second panel sits right of the first, the third below it
PanelPlacementWitness ==
    /\ composite.status = "written"
    /\ PublisherKnown(composite.args)
    /\ composite.args.max_per_row = 2
    /\ Len(composite.groups) = 3
    /\ RLt(composite.groups[1].x, composite.groups[2].x)
    /\ RLt(composite.groups[1].y, composite.groups[3].y)
    /\ composite.groups[3].x = composite.groups[1].x
    /\ LoadedGaps[1] # RInt(0)

\* ------------------------------------------------------------------ the root a crop returns
\* C11: when the content bounds (minX, minY, maxX, maxY) of the document are
\* present, crop_svg_to_content returns a new root with width maxX-minX, height
\* maxY-minY and viewBox (minX, minY, maxX-minX, maxY-minY); every other
\* attribute of the old root is carried over with its value, the children are
\* attached in their order, and the returned width and height are the
\* declared ones of the new root.
CropRewritesRoot ==
    [][(res'.op = "crop_svg_to_content" /\ get_content_bounds(doc, 1, Identity) # <<>>) =>
        LET b == get_content_bounds(doc, 1, Identity)
            old == doc[1]
            new == doc'[1]
        IN  /\ DOMAIN new.attrs = DOMAIN old.attrs \cup {"width", "height"}
            /\ new.attrs["width"] = b[3] - b[1]
            /\ new.attrs["height"] = b[4] - b[2]
            /\ new.viewBox = <<b[1], b[2], b[3] - b[1], b[4] - b[2]>>
            /\ \A k \in DOMAIN old.attrs \ {"width", "height"} : new.attrs[k] = old.attrs[k]
            /\ new.transform = old.transform
            /\ new.tag = old.tag
            /\ Len(doc') = Len(doc)
            /\ \A i \in 2..Len(doc) : doc'[i] = doc[i]
            /\ Children(doc', 1) = Children(doc, 1)
            /\ res'.out = <<new.attrs["width"], new.attrs["height"]>>
            /\ parse_svg_dimensions(new) = <<(<<res'.out[1]>>), (<<res'.out[2]>>)>>]_vars

\* C11 witness: a root with an id and a transform, holding two children, was
\* cropped to a box that does not start at the origin and is not the declared size
CropRewritesRootWitness ==
    /\ res.op = "crop_svg_to_content"
    /\ "id" \in DOMAIN doc[1].attrs
    /\ doc[1].attrs["id"] = FigureId
    /\ Len(Children(doc, 1)) = 2
    /\ Len(doc[1].viewBox) = 4
    /\ doc[1].viewBox[2] # 0
    /\ doc[1].attrs["width"] # 100
    /\ res.out = <<doc[1].viewBox[3], doc[1].viewBox[4]>>

\* ------------------------------------------------------------------ panels that fail to load
\* the place in the input of the k-th file that loads
KthLoadable(files, k) ==
    CHOOSE i \in 1..Len(files) :
        /\ files[i] # Unloadable
        /\ Cardinality({j \in 1..(i - 1) : files[j] # Unloadable}) = k - 1

\* C12: a panel that fails to load is skipped and the others are composed in
\* their input order; when no panel loads the call reports failure and writes
\* no composite.
FailedPanelsSkipped ==
    composite.status # "none" =>
        LET good == {i \in 1..Len(panels) : panels[i] # Unloadable}
        IN  IF good = {}
            THEN composite.status = "failed" /\ "groups" \notin DOMAIN composite
            ELSE /\ composite.status = "written"
                 /\ Len(composite.groups) = Cardinality(good)
                 /\ \A k \in 1..Len(composite.groups) :
                      LET file == panels[KthLoadable(panels, k)]
                          g == composite.groups[k]
                      IN  /\ Len(g.tree) = Len(file)
                          /\ SubSeq(g.tree, 2, Len(g.tree)) = SubSeq(file, 2, Len(file))
                          /\ \A c \in 1..Len(Children(file, 1)) :
                               g.children[c] = GroupChild(Children(file, 1)[c],
                                                          file[Children(file, 1)[c]])

\* C12 witness: the second of three files failed to load and the two others,
\* of different content, were composed
FailedPanelsSkippedWitness ==
    /\ composite.status = "written"
    /\ panels = <<PanelB, Unloadable, PanelA>>
    /\ Len(composite.groups) = 2
    /\ composite.groups[2].children[1].node.attrs = RectB

\* ------------------------------------------------------------------ align_svg_panels (align_axes.py)
\* floats that may be infinite: the bounds of an element without content are
\* (inf, inf, -inf, -inf)
Fin(v) == [kind |-> "fin", v |-> v]
NegInf == [kind |-> "-inf", v |-> 0]
PosInf == [kind |-> "inf", v |-> 0]
NaN == [kind |-> "nan", v |-> 0]

\* bounds[3] of what get_element_bounds returned
Bottom(bounds) == IF bounds = <<>> THEN NegInf ELSE Fin(bounds[4])

\* min() over bottoms, each finite or -inf
MinBottom(bottoms) ==
    IF \E i \in 1..Len(bottoms) : bottoms[i].kind = "-inf" THEN NegInf
    ELSE Fin(CHOOSE v \in {bottoms[i].v : i \in 1..Len(bottoms)} :
                \A i \in 1..Len(bottoms) : v <= bottoms[i].v)

\* a - b in float arithmetic
FloatSub(a, b) ==
    CASE a.kind = "fin" /\ b.kind = "fin" -> Fin(a.v - b.v)
      [] a.kind = "nan" \/ b.kind = "nan" -> NaN
      [] a.kind = b.kind -> NaN
      [] a.kind = "fin" -> IF b.kind = "inf" THEN NegInf ELSE PosInf
      [] OTHER -> a

\* abs(offset) > 0.1
Significant(offset) ==
    CASE offset.kind = "fin" -> Abs(offset.v) * 10 > 1
      [] offset.kind = "nan" -> FALSE
      [] OTHER -> TRUE

\* the text of a float that is not finite ("-inf", "inf"): not a match of [-\d.]+
InfText == [num |-> FALSE, v |-> 1]

\* a float formatted into the new transform attribute
Formatted(x) == IF x.kind = "fin" THEN Num(x.v) ELSE InfText

\* element_id.lower() on the pieces of an id
Lower(piece) ==
    CASE piece = "Axes" -> "axes"
      [] piece = "AXIS" -> "axis"
      [] OTHER -> piece

\* 'axes' in element_id.lower() or 'axis' in element_id.lower()
IsAxesGroup(e) ==
    LET element_id == Get(e.attrs, "id", <<>>)
    IN  \E k \in 1..Len(element_id) : Lower(element_id[k]) \in {"axes", "axis"}

\* search_element: the element, then its children, depth first
RECURSIVE SearchElement(_, _)
RECURSIVE SearchChildren(_, _)
SearchChildren(d, kids) ==
    IF kids = <<>> THEN <<>>
    ELSE SearchElement(d, Head(kids)) \o SearchChildren(d, Tail(kids))
SearchElement(d, n) ==
    (IF IsAxesGroup(d[n]) THEN <<n>> ELSE <<>>) \o SearchChildren(d, Children(d, n))

find_axes_groups(d) == SearchElement(d, 1)

\* the bottoms of the axes groups, each measured from (0, 0)
AxesBottoms(d, axes_groups) ==
    [k \in 1..Len(axes_groups) |->
        Bottom(align_get_element_bounds(d, axes_groups[k], <<0, 0>>))]

\* the patch-bottom loop: every group whose bottom is off the minimum gets
\* translate(tx, ty - offset) as its whole transform attribute
PatchBottom(d, axes_groups) ==
    LET bottoms == AxesBottoms(d, axes_groups)
        min_bottom == MinBottom(bottoms)
        Place(n) == FirstIndex({k \in 1..Len(axes_groups) : axes_groups[k] = n})
        Shifted(n) ==
            LET offset == FloatSub(bottoms[Place(n)], min_bottom)
                t == align_parse_transform(d[n].transform)
            IN  IF Significant(offset)
                THEN [d[n] EXCEPT !.transform =
                        <<Call("translate",
                               <<Num(t[1]), Formatted(FloatSub(Fin(t[2]), offset))>>)>>]
                ELSE d[n]
    IN  [n \in 1..Len(d) |-> IF Place(n) # 0 THEN Shifted(n) ELSE d[n]]

\* align_svg_panels(svg_path, args) on the document of the file: the document
\* afterwards, whether the file was written, and the value returned
align_svg_panels(d, args) ==
    LET axes_groups == find_axes_groups(d)
    IN  IF Len(axes_groups) < 2
        THEN [doc |-> d, written |-> FALSE, returned |-> FALSE]
        ELSE [doc |-> IF args.align_mode = "patch-bottom"
                      THEN PatchBottom(d, axes_groups) ELSE d,
              written |-> TRUE, returned |-> TRUE]

\* ------------------------------------------------------------------ specification of the alignment pass
AxesId == <<"axes", "_", "1">>
AxisId == <<"matplotlib", ".", "AXIS", "_", "2">>
RectLow == [x |-> 0, y |-> 0, width |-> 10, height |-> 3]

AlignNodeChoices ==
    {<<"g", [id |-> AxesId], NoTransform>>,
     <<"g", [id |-> AxisId], Translate55>>,
     <<"g", [id |-> AxesId], TranslateScale>>,
     <<"g", NoAttrs, Translate55>>,
     <<"rect", [x |-> 0, y |-> 0, width |-> 10, height |-> 10, id |-> AxisId], NoTransform>>,
     <<"rect", RectA, NoTransform>>,
     <<"rect", RectLow, NoTransform>>,
     <<"rect", [x |-> 0, y |-> 0, width |-> 10, height |-> 3, id |-> AxesId], NoTransform>>}

AlignRoots ==
    {Node(0, "svg", [width |-> 100, height |-> 50], NoTransform),
     Node(0, "svg", [width |-> 100, height |-> 50, id |-> AxesId], NoTransform)}

\* --align-mode, choices xlabel and patch-bottom
AlignArgs == [align_mode : {"patch-bottom", "xlabel"}]

AlignInit ==
    /\ doc \in {<<r>> : r \in AlignRoots}
    /\ res = NoCall
    /\ attr = <<>>
    /\ parsed = NotParsed
    /\ panels = <<>>
    /\ composite = NotRun

\* the next element of the file, as the last child of p
AlignAppendChild(p, c) ==
    /\ res = NoCall
    /\ Len(doc) < MaxAlignNodes
    /\ doc' = Append(doc, Node(p, c[1], c[2], c[3]))
    /\ UNCHANGED <<res, attr, parsed, panels, composite>>

AlignSvgPanels(args) ==
    LET r == align_svg_panels(doc, args) IN
    /\ res = NoCall
    /\ doc' = r.doc
    /\ res' = [op |-> "align_svg_panels", mode |-> args.align_mode,
               written |-> r.written, returned |-> r.returned]
    /\ UNCHANGED <<attr, parsed, panels, composite>>

AlignNext ==
    \/ \E p \in 1..Len(doc), c \in AlignNodeChoices : AlignAppendChild(p, c)
    \/ \E args \in AlignArgs : AlignSvgPanels(args)

AlignSpec == AlignInit /\ [][AlignNext]_vars

\* C13: a request for an alignment mode other than the implemented
\* patch-bottom (like a publisher/layout pair that is not in the size table)
\* fails fast: the operation returns failure and writes no output, it does not
\* complete successfully with the request ignored.
UnsupportedModeFails ==
    (res.op = "align_svg_panels" /\ res.mode # "patch-bottom") =>
        (~res.returned /\ ~res.written)

\* two floats within 0.1 of each other
Near(a, b) ==
    IF a.kind = "fin" /\ b.kind = "fin" THEN Abs(a.v - b.v) * 10 <= 1
    ELSE a.kind = b.kind /\ a.kind # "nan"

\* C14: after align_svg_panels ran in patch-bottom mode on a document with at
\* least two axes groups, the bottom of every axes group is the minimum bottom
\* found across the groups before the pass, within 0.1: also for axes groups
\* nested in axes groups, groups with scale in their transform and groups
\* without rect, line or text content.
BottomsAligned ==
    [][(/\ res'.op = "align_svg_panels"
        /\ res'.mode = "patch-bottom"
        /\ Len(find_axes_groups(doc)) >= 2) =>
        LET axes_groups == find_axes_groups(doc)
            min_bottom == MinBottom(AxesBottoms(doc, axes_groups))
        IN  \A k \in 1..Len(axes_groups) :
                Near(Bottom(align_get_element_bounds(doc', axes_groups[k], <<0, 0>>)),
                     min_bottom)]_vars

\* ------------------------------------------------------------------ gap selection
\* C15: with tight set, colGap = rowGap = 0 whatever gapRatio and the fixed
\* gaps are; otherwise with gapRatio given, colGap = gapRatio * average panel
\* width and rowGap = gapRatio * average panel height whatever the fixed gaps
\* are; otherwise the fixed gaps are used unchanged.  The gaps are the ones the
\* panels are placed with.
GapSelection ==
    composite.status = "written" =>
        LET a == composite.args
            N == Len(LoadedDims)
            avgWidth == RDiv(RSum([i \in 1..N |-> LoadedDims[i][1]]), RInt(N))
            avgHeight == RDiv(RSum([i \in 1..N |-> LoadedDims[i][2]]), RInt(N))
            colGap == IF a.tight THEN RInt(0)
                      ELSE IF a.gap_ratio # <<>> THEN RMul(a.gap_ratio[1], avgWidth)
                      ELSE a.col_gap
            rowGap == IF a.tight THEN RInt(0)
                      ELSE IF a.gap_ratio # <<>> THEN RMul(a.gap_ratio[1], avgHeight)
                      ELSE a.row_gap
        IN  /\ composite.col_gap = colGap
            /\ composite.row_gap = rowGap
            /\ \A i \in 1..Len(composite.groups) :
                LET g == composite.groups[i] IN
                /\ g.x = RAdd(a.outer_pad,
                              RMul(RInt(g.col), RAdd(composite.max_width, colGap)))
                /\ g.y = RAdd(a.outer_pad,
                              RMul(RInt(g.row), RAdd(composite.max_height, rowGap)))

\* C15 witness: tight and gapRatio were both given with a nonzero fixed gap
\* and panels of nonzero average size, and the second panel sits right at
\* the end of the first cell
GapSelectionWitness ==
    /\ composite.status = "written"
    /\ composite.args.tight
    /\ composite.args.gap_ratio # <<>>
    /\ composite.args.col_gap # RInt(0)
    /\ composite.args.max_per_row = 2
    /\ Len(composite.groups) >= 2
    /\ RLt(RInt(0), RSum(Widths(LoadedDims)))
    /\ composite.groups[2].x = RAdd(composite.args.outer_pad, composite.max_width)

\* ------------------------------------------------------------------ polygons and polylines
\* C16: the bounds of a polygon or polyline are the min/max over the complete
\* (x, y) pairs of its points: an unpaired trailing number is dropped and does
\* not reach minX or maxX, and empty points give absent bounds, which add
\* nothing to the box of the parent.
PolygonPairs ==
    (res.op = "get_content_bounds" /\ res.transform = Identity) =>
        LET e == doc[res.node]
            kids == Children(doc, res.node)
            nums == FindNumbers(Get(e.attrs, "points", <<>>))
            pairs == Len(nums) \div 2
            xs == {nums[2 * k - 1] : k \in 1..pairs}
            ys == {nums[2 * k] : k \in 1..pairs}
            lo(S) == CHOOSE v \in S : \A w \in S : v <= w
            hi(S) == CHOOSE v \in S : \A w \in S : v >= w
        IN  /\ (e.tag \in {"polygon", "polyline"} /\ kids = <<>> /\ e.transform = <<>>) =>
                 res.out = IF pairs = 0 THEN <<>> ELSE <<lo(xs), lo(ys), hi(xs), hi(ys)>>
            /\ (/\ kids # <<>>
                /\ \A k \in 1..Len(kids) :
                     /\ doc[kids[k]].tag \in {"polygon", "polyline"}
                     /\ Get(doc[kids[k]].attrs, "points", <<>>) = <<>>
                     /\ Children(doc, kids[k]) = <<>>) =>
                 res.out = ApplyTransform(LocalBounds(e), NodeTransform(e, Identity))

\* ------------------------------------------------------------------ the children of a panel's group
\* C17: in every composite, the group of each panel holds the top-level
\* children of that panel in their relative order, and when labels are asked
\* for, the label is the last child of the group, after all the content, a
\* text at x = 5, y = 15 whose character is the first label character
\* advanced by the panel's index.
GroupOrder ==
    composite.status = "written" =>
        \A i \in 1..Len(composite.groups) :
            LET g == composite.groups[i]
                a == composite.args
                file == panels[KthLoadable(panels, i)]
                kids == Children(file, 1)
                content == IF a.add_panel_label
                           THEN SubSeq(g.children, 1, Len(g.children) - 1)
                           ELSE g.children
            IN  /\ Len(content) = Len(kids)
                /\ \A k \in 1..Len(kids) :
                     content[k].src = kids[k] /\ content[k].node = file[kids[k]]
                /\ \A k, l \in 1..Len(content) : k < l => content[k].src < content[l].src
                /\ a.add_panel_label =>
                     LET label == g.children[Len(g.children)] IN
                     /\ label.src = 0
                     /\ label.node.tag = "text"
                     /\ label.node.attrs = [x |-> 5, y |-> 15]
                     /\ label.node.text = a.panel_label_first + (i - 1)
                /\ ~a.add_panel_label => \A k \in 1..Len(g.children) : g.children[k].src # 0

\* C17 witness: a labelled composite whose second panel has two top-level
\* children, followed by the label 'b'
GroupOrderWitness ==
    /\ composite.status = "written"
    /\ composite.args.add_panel_label
    /\ Len(composite.groups) >= 2
    /\ Len(composite.groups[2].children) = 3
    /\ composite.groups[2].children[1].node.tag = "g"
    /\ composite.groups[2].children[2].node.tag = "text"
    /\ composite.groups[2].children[3].src = 0
    /\ composite.groups[2].children[3].node.text = FirstLabel + 1

\* ------------------------------------------------------------------ cropped panels in their cells
\* get_content_bounds of a panel's content as it lies in the composite: the
\* children the group took from the panel, under the group's translate(x, y),
\* which adds (x, y) to the box they have under the identity
RECURSIVE ContentUnderGroup(_, _, _)
ContentUnderGroup(g, k, bounds) ==
    IF k > Len(g.children) THEN bounds
    ELSE ContentUnderGroup(g, k + 1,
            IF g.children[k].src = 0 THEN bounds
            ELSE MergeBounds(bounds, get_content_bounds(g.tree, g.children[k].src, Identity)))

ContentBoundsInComposite(g) ==
    LET b == ContentUnderGroup(g, 1, <<>>)
    IN  IF b = <<>> THEN <<>>
        ELSE <<RAdd(g.x, RInt(b[1])), RAdd(g.y, RInt(b[2])),
               RAdd(g.x, RInt(b[3])), RAdd(g.y, RInt(b[4]))>>

\* C18: with crop set, the content of every panel starts at the origin of its
\* cell: the content bounds of the panel's group in composite coordinates
\* have minX = the group's x and minY = the group's y, and the content lies
\* inside the cell.
CroppedContentAtCellOrigin ==
    (composite.status = "written" /\ composite.args.crop) =>
        \A i \in 1..Len(composite.groups) :
            LET g == composite.groups[i]
                b == ContentBoundsInComposite(g)
            IN  b # <<>> =>
                    /\ b[1] = g.x
                    /\ b[2] = g.y
                    /\ RLe(b[3], RAdd(g.x, composite.max_width))
                    /\ RLe(b[4], RAdd(g.y, composite.max_height))

\* ------------------------------------------------------------------ panels and their cells
\* C19: in every composite, publisher rescaling included, the declared width
\* of each panel is at most the final cell width and its declared height at
\* most the final cell height, so that with gaps >= 0 the declared extent of a
\* panel stays out of the neighbouring cells and inside the total width and
\* height.
PanelFitsCell ==
    composite.status = "written" =>
        \A i \in 1..Len(composite.groups) :
            LET g == composite.groups[i]
                a == composite.args
                w == LoadedDims[i][1]
                h == LoadedDims[i][2]
            IN  /\ RLe(w, composite.max_width)
                /\ RLe(h, composite.max_height)
                /\ RLe(RAdd(RAdd(g.x, w), a.outer_pad), composite.width)
                /\ RLe(RAdd(RAdd(g.y, h), a.outer_pad), composite.height)
                /\ \A j \in 1..Len(composite.groups) :
                     (composite.groups[j].row = g.row /\ composite.groups[j].col = g.col + 1)
                        => RLe(RAdd(g.x, w), composite.groups[j].x)

====
